---- MODULE Spec2Model ----
(***************************************************************************)
(* A model of the stream control layer of kcp-go (src/stream.go): the      *)
(* UDPStream object, its one-shot and coalesced signals, and the Read,     *)
(* WriteBuffer, Dial, Accept, Close, CloseWrite, reset, update and input   *)
(* operations.  Every critical section of the per-stream mutex is one      *)
(* atomic action, every select statement is one atomic action that picks   *)
(* any ready case.  The ARQ engine (kcp.go) is not part of src/; it is     *)
(* modelled from its contract: a queue of submitted payloads that are      *)
(* delivered to the peer in order and exactly once and leave the send      *)
(* queue when acknowledged.                                                *)
(*                                                                         *)
(* The pending outbound batches (msgss) and the tunnel hand-off of flush   *)
(* are not represented in this part of the model: flush is represented by  *)
(* its effect on the write-event slot.                                     *)
(***************************************************************************)
EXTENDS Integers, Sequences, FiniteSets, TLC

\* ---------------------------------------------------------------- constants
PSH == 49
SYN == 50
FIN == 51
HRT == 52
RST == 53
\* a command tag outside PSH..RST ('9')
BADTAG == RST + 4
\* the separator of the endpoint list carried by a SYN (' ')
SP == 32

\* ------------------------------------------------------------------- bounds
\* kcp.mss: the largest ARQ payload, tag byte included
MSS == 3
\* kcp.snd_wnd and kcp.rmt_wnd
SndWnd == 1
RmtWnd == 1
\* the longest buffer a Read is called with: longer than a payload's data
MaxRead == 3
\* the number of datagrams a peer outside the model sends to a stream with
\* one caller, and to a stream with two callers
MaxInject == 1
MaxInject2 == 2
\* the number of bytes the writer of a connected pair writes in total
MaxBytes == 4
\* the number of heartbeats the updater of a connected pair emits
MaxHrt == 1
\* the number of payloads the dialling peer delivers to a passive stream
MaxSyn == 2
\* the last instant of the clock
MaxNow == 3
\* the length of the parallel window, in instants of the clock
ParallelTime == 2
\* the number of messages a queue of msgss holds at most between two flushes
MaxOut == 2
\* the number of batches the tunnel layer is handed at most
MaxHand == 2

Streams == {"A", "B"}
UserThreads == {"u1", "u2", "u3"}
Updaters == {"kA", "kB"}
Threads == UserThreads \cup Updaters

\* the stream a thread works on
StreamOf(t) == IF t \in {"u3", "kB"} THEN "B" ELSE "A"
Peer(s) == IF s = "A" THEN "B" ELSE "A"

VARIABLES
    \* --- UDPStream fields
    accepted,        \* s.accepted
    writeDelay,      \* s.writeDelay
    tunnels,         \* s.tunnels
    remotes,         \* s.remotes
    bufptr,          \* s.bufptr: the unread rest of the last assembled message
    rd, wd,          \* s.rd, s.wd: 0 is the zero time
    recvSynOnce, sendFinOnce, recvFinOnce, rstOnce, closeOnce,
    \* one-shot signals: the number of close() calls made on the channel
    chSendFinEvent, chRecvFinEvent, chRst, chClose,
    \* coalesced signals: TRUE when the one-slot channel holds a token
    chDialEvent, chReadEvent, chWriteEvent,
    chClean,         \* s.chClean: "nil", "armed" (timer running) or "done"
    msgss,           \* s.msgss: per tunnel, the messages waiting for the wire
    parallelExpire,  \* s.parallelExpire: 0 is the zero time
    lastXmit,        \* history: the xmitMax of the last call of output
    fl,              \* per thread, the locals of a running flush: the batches
                     \* taken from s.msgss, the index of the handoff loop and
                     \* (history) the tunnel array as it was under the lock
    handed,          \* history: the batches handed to the tunnel layer
    \* --- the ARQ engine of each stream
    snd,             \* payloads submitted and not yet acknowledged
    dlv,             \* how many of them the peer's engine has received
    rcv_queue,       \* assembled payloads waiting for Recv
    snd_una,         \* kcp.snd_una, saturated at 2; kept at 0 on an accepted
                     \* stream, where the code never reads it
    kcpDead,         \* kcp.state = 0xFFFFFFFF
    \* --- globals
    CurrEstab,       \* DefaultSnmp.CurrEstab
    now,             \* the wall clock
    \* --- callers
    th,              \* the position and locals of every thread
    \* --- history
    hist             \* per stream: what was written, read and submitted

sigVars == <<recvSynOnce, sendFinOnce, recvFinOnce, rstOnce, closeOnce,
             chSendFinEvent, chRecvFinEvent, chRst, chClose>>
evVars == <<chDialEvent, chReadEvent, chWriteEvent>>
cfgVars == <<accepted, writeDelay>>
tunVars == <<tunnels, remotes>>
timeVars == <<rd, wd, now>>
kcpVars == <<snd, dlv, rcv_queue, snd_una, kcpDead>>
outVars == <<msgss, parallelExpire, lastXmit, fl, handed>>
vars == <<cfgVars, outVars, tunVars, bufptr, timeVars, sigVars, evVars, chClean,
          kcpVars, CurrEstab, th, hist>>

\* ------------------------------------------------------------------ helpers
Min(a, b) == IF a < b THEN a ELSE b

\* s[:n] and s[n:] of Go, n clipped to the length
Take(q, n) == SubSeq(q, 1, Min(n, Len(q)))
Drop(q, n) == SubSeq(q, n + 1, Len(q))

\* a counter of the history, saturated
Bump(n) == Min(n + 1, 2)

Closed(ch, s) == ch[s] > 0

\* kcp.WaitSnd()
WaitSnd(s) == Len(snd[s])

WindowOpen(s) == WaitSnd(s) < SndWnd /\ WaitSnd(s) < RmtWnd

\* kcp.PeekSize()
PeekSize(s) == IF rcv_queue[s] = <<>> THEN 0 ELSE Len(Head(rcv_queue[s]))

\* SendLoop with a split that advances b by MSS: one byte per segment
\* boundary is never sent
SendLoop_SkipByte(flag, b) ==
    IF Len(b) < MSS
    THEN << <<flag>> \o b >>
    ELSE << <<flag>> \o Take(b, MSS - 1), <<flag>> \o Drop(b, MSS) >>

\* the payloads the inner loop of WriteBuffer hands to kcp.Send
RECURSIVE SendLoop(_, _)
SendLoop(flag, b) ==
    IF Len(b) < MSS
    THEN << <<flag>> \o b >>
    ELSE << <<flag>> \o Take(b, MSS - 1) >> \o SendLoop(flag, Drop(b, MSS - 1))

\* the slice b as the inner loop of WriteBuffer leaves it
RECURSIVE LoopTail(_)
LoopTail(b) == IF Len(b) < MSS THEN b ELSE LoopTail(Drop(b, MSS - 1))

\* the notification flush decides on: notifyWrite
FlushNotify(s) == WindowOpen(s)

\* flush, lines 596-600: the batches of q from index i on, each with the
\* tunnel it is handed to; 0 stands for an index outside the tunnel array tun
RECURSIVE Handoff(_, _, _)
Handoff(q, tun, i) ==
    IF i > Len(q) THEN <<>>
    ELSE (IF Len(q[i]) > 0
          THEN <<[tunnel |-> IF i <= Len(tun) THEN tun[i] ELSE 0, msgs |-> q[i]]>>
          ELSE <<>>) \o Handoff(q, tun, i + 1)

\* flush, lines 578-600, run without another goroutine in between: the queued
\* messages are taken from the stream and handed to the tunnels
FlushMsgss(s) ==
    /\ msgss' = [msgss EXCEPT ![s] = <<>>]
    /\ handed' = [handed EXCEPT ![s] =
                    IF hist[s].track THEN @ \o Handoff(msgss[s], tunnels[s], 1)
                    ELSE @]


\* ------------------------------------------------------------------- errors
NoErr == "nil"
ErrClosedPipe == "io.ErrClosedPipe"
ErrUnexpectedEOF == "io.ErrUnexpectedEOF"
EOF == "io.EOF"
errTimeout == "errTimeout"
errStreamFlag == "errStreamFlag"
errSynInfo == "errSynInfo"
errDialParam == "errDialParam"
errRemoteStream == "errRemoteStream"
\* the error of net.ResolveUDPAddr
errResolve == "errResolve"

\* ------------------------------------------------------------- thread state
IdleThread ==
    [pc |-> "idle", op |-> "none", flag |-> 0, b |-> <<>>, alen |-> 0,
     tmo |-> 0, rop |-> "none", rn |-> 0, rerr |-> NoErr]

\* the caller gets (n, e) back from the operation r.op
Return(r, n, e) ==
    [r EXCEPT !.pc = "idle", !.op = "none", !.flag = 0, !.b = <<>>, !.tmo = 0,
              !.rop = r.op, !.rn = n, !.rerr = e]

\* a call of operation op starts
Begin(r, op, pc, flag, b, alen) ==
    [r EXCEPT !.pc = pc, !.op = op, !.flag = flag, !.b = b, !.alen = alen,
              !.tmo = 0, !.rop = "none", !.rn = 0, !.rerr = NoErr]

\* WriteBuffer returns (n, e) to the operation that called it
WBDone(r, n, e) ==
    CASE r.op = "Write" -> Return(r, n, e)
      [] r.op = "Close" -> [r EXCEPT !.pc = "close_fin", !.b = <<>>, !.tmo = 0]
      [] r.op = "CloseWrite" -> [r EXCEPT !.pc = "cw_fin", !.b = <<>>, !.tmo = 0]
      [] r.op = "Dial" -> [r EXCEPT !.pc = "dial_flush", !.b = <<>>, !.tmo = 0]
      [] OTHER -> [r EXCEPT !.pc = "upd", !.op = "none", !.flag = 0,
                            !.b = <<>>, !.tmo = 0]

\* ------------------------------------------------------------------ history
InitHist ==
    [track |-> FALSE,     \* whether the bytes written and read are recorded
     called |-> 0,        \* bytes passed to Write calls
     sent |-> <<>>,       \* bytes passed to Writes that submitted them
     got |-> <<>>,        \* bytes returned by Reads
     finMark |-> -1,      \* Len(sent) when the FIN was submitted
     nRst |-> 0,          \* RST commands submitted
     nFin |-> 0,          \* FIN commands submitted
     injected |-> 0,      \* datagrams injected by the environment
     hrt |-> 0,           \* heartbeats started
     closeRet |-> FALSE,  \* a Close has returned nil
     dials |-> 0,         \* calls of Dial that sent a SYN (when recorded)
     dialed |-> FALSE,    \* a Dial or an Accept has returned nil
     eof |-> FALSE,       \* a Read has returned io.EOF
     cleaned |-> 0]       \* calls of cleancb

\* the history after flag and the user bytes b were submitted
Submitted(h, flag, b) ==
    [h EXCEPT !.sent = IF h.track /\ flag = PSH THEN @ \o b ELSE @,
              !.finMark = IF h.track /\ flag = FIN /\ @ = -1 THEN Len(h.sent) ELSE @,
              !.nRst = IF flag = RST THEN Bump(@) ELSE @,
              !.nFin = IF flag = FIN THEN Bump(@) ELSE @]

\* --------------------------------------------------------------------- Init
\* everything but the tunnel and remote arrays
InitRest ==
    /\ bufptr = [s \in Streams |-> <<>>]
    /\ rd = [s \in Streams |-> 0]
    /\ wd = [s \in Streams |-> 0]
    /\ recvSynOnce = [s \in Streams |-> FALSE]
    /\ sendFinOnce = [s \in Streams |-> FALSE]
    /\ recvFinOnce = [s \in Streams |-> FALSE]
    /\ rstOnce = [s \in Streams |-> FALSE]
    /\ closeOnce = [s \in Streams |-> FALSE]
    /\ chSendFinEvent = [s \in Streams |-> 0]
    /\ chRecvFinEvent = [s \in Streams |-> 0]
    /\ chRst = [s \in Streams |-> 0]
    /\ chClose = [s \in Streams |-> 0]
    /\ chDialEvent = [s \in Streams |-> FALSE]
    /\ chReadEvent = [s \in Streams |-> FALSE]
    /\ chWriteEvent = [s \in Streams |-> FALSE]
    /\ chClean = [s \in Streams |-> "nil"]
    /\ msgss = [s \in Streams |-> <<>>]
    /\ parallelExpire = [s \in Streams |-> 0]
    /\ lastXmit = [s \in Streams |-> 0]
    /\ fl = [t \in Threads |-> [msgss |-> <<>>, i |-> 0, tunnels |-> <<>>]]
    /\ handed = [s \in Streams |-> <<>>]
    /\ snd = [s \in Streams |-> <<>>]
    /\ dlv = [s \in Streams |-> 0]
    /\ rcv_queue = [s \in Streams |-> <<>>]
    /\ snd_una = [s \in Streams |-> 0]
    /\ kcpDead = [s \in Streams |-> FALSE]
    /\ CurrEstab = Cardinality(Streams)
    /\ now = 1
    /\ th = [t \in Threads |->
               IF t \in Updaters THEN [IdleThread EXCEPT !.pc = "upd"]
               ELSE IdleThread]

\* a stream constructed with one remote endpoint
InitCommon ==
    /\ tunnels = [s \in Streams |-> <<1>>]
    /\ remotes = [s \in Streams |-> << <<1>> >>]
    /\ InitRest

\* ------------------------------------------------------------- WriteBuffer
\* the errors the first select of WriteBuffer can return
WBTopErrs(s) ==
    (IF Closed(chClose, s) THEN {ErrClosedPipe} ELSE {})
    \cup (IF Closed(chRst, s) THEN {ErrUnexpectedEOF} ELSE {})
    \cup (IF Closed(chSendFinEvent, s) THEN {ErrClosedPipe} ELSE {})

\* the error of the chSendFinEvent case of the second select of WriteBuffer
WBWaitFinErr == EOF

\* the cases of the second select of WriteBuffer that can proceed
WBWaitCases(s, r) ==
    (IF Closed(chClose, s) THEN {ErrClosedPipe} ELSE {})
    \cup (IF Closed(chRst, s) THEN {ErrUnexpectedEOF} ELSE {})
    \cup (IF Closed(chSendFinEvent, s) THEN {WBWaitFinErr} ELSE {})
    \cup (IF chWriteEvent[s] THEN {"event"} ELSE {})
    \cup (IF r.tmo # 0 /\ now >= r.tmo THEN {errTimeout} ELSE {})

\* WriteBuffer, lines 344-352
WBTop(t) ==
    LET s == StreamOf(t)
        r == th[t]
    IN  /\ r.pc = "wb_top"
        /\ IF WBTopErrs(s) = {}
           THEN th' = [th EXCEPT ![t].pc = "wb_lock"]
           ELSE \E e \in WBTopErrs(s) : th' = [th EXCEPT ![t] = WBDone(r, 0, e)]
        /\ UNCHANGED <<cfgVars, outVars, tunVars, bufptr, timeVars, sigVars, evVars,
                       chClean, kcpVars, CurrEstab, hist>>

\* WriteBuffer, lines 357-400: the critical section
WBLock(t) ==
    LET s == StreamOf(t)
        r == th[t]
        q == snd[s] \o SendLoop(r.flag, r.b)
        needFlush == Len(q) >= SndWnd \/ Len(q) >= RmtWnd \/ ~writeDelay[s]
    IN  /\ r.pc = "wb_lock"
        /\ IF WindowOpen(s)
           THEN /\ snd' = [snd EXCEPT ![s] = q]
                /\ hist' = [hist EXCEPT ![s] = Submitted(@, r.flag, r.b)]
                /\ th' = [th EXCEPT ![t] =
                            IF needFlush
                            THEN [r EXCEPT !.pc = "wb_flush", !.b = LoopTail(r.b)]
                            ELSE WBDone(r, Len(LoopTail(r.b)), NoErr)]
           ELSE /\ UNCHANGED <<snd, hist>>
                /\ th' = [th EXCEPT ![t] =
                            IF wd[s] # 0 /\ now > wd[s]
                            THEN WBDone(r, 0, errTimeout)
                            ELSE [r EXCEPT !.pc = "wb_wait", !.tmo = wd[s]]]
        /\ UNCHANGED <<cfgVars, outVars, tunVars, bufptr, timeVars, sigVars, evVars,
                       chClean, dlv, rcv_queue, snd_una, kcpDead, CurrEstab>>

\* WriteBuffer, lines 378-385: flush(true) and the return
WBFlush(t) ==
    LET s == StreamOf(t)
        r == th[t]
    IN  /\ r.pc = "wb_flush"
        /\ FlushMsgss(s)
        /\ chWriteEvent' = [chWriteEvent EXCEPT ![s] = @ \/ FlushNotify(s)]
        /\ th' = [th EXCEPT ![t] = WBDone(r, Len(r.b), NoErr)]
        /\ UNCHANGED <<cfgVars, parallelExpire, lastXmit, fl, tunVars, bufptr, timeVars,
                       sigVars, chDialEvent,
                       chReadEvent, chClean, kcpVars, CurrEstab, hist>>

\* WriteBuffer, lines 402-415: the select of a blocked writer
WBWait(t) ==
    LET s == StreamOf(t)
        r == th[t]
    IN  /\ r.pc = "wb_wait"
        /\ \E c \in WBWaitCases(s, r) :
              IF c = "event"
              THEN /\ chWriteEvent' = [chWriteEvent EXCEPT ![s] = FALSE]
                   /\ th' = [th EXCEPT ![t] = [r EXCEPT !.pc = "wb_lock", !.tmo = 0]]
              ELSE /\ UNCHANGED chWriteEvent
                   /\ th' = [th EXCEPT ![t] = WBDone(r, 0, c)]
        /\ UNCHANGED <<cfgVars, outVars, tunVars, bufptr, timeVars, sigVars, chDialEvent,
                       chReadEvent, chClean, kcpVars, CurrEstab, hist>>

\* Write, lines 325-331: the caller passes a slice of n fresh bytes
Write(t, n) ==
    LET s == StreamOf(t)
        r == th[t]
        k == hist[s].called
        b == [i \in 1..n |-> k + i]
    IN  /\ r.pc = "idle"
        /\ k + n <= MaxBytes
        /\ th' = [th EXCEPT ![t] =
                    Begin(r, "Write", "wb_top", PSH, b, n)]
        /\ hist' = [hist EXCEPT ![s].called = IF hist[s].track THEN k + n ELSE @]
        /\ UNCHANGED <<cfgVars, outVars, tunVars, bufptr, timeVars, sigVars, evVars,
                       chClean, kcpVars, CurrEstab>>


\* -------------------------------------------------------- command handlers
\* the index of the first sp in d, 0 when there is none
RECURSIVE IndexOf(_, _, _)
IndexOf(d, x, i) ==
    IF i > Len(d) THEN 0 ELSE IF d[i] = x THEN i ELSE IndexOf(d, x, i + 1)

\* strings.Split(data, " ")
RECURSIVE Split(_)
Split(d) ==
    LET i == IndexOf(d, SP, 1)
    IN  IF i = 0 THEN <<d>> ELSE <<SubSeq(d, 1, i - 1)>> \o Split(Drop(d, i))

\* strings.Join(locals, " ")
RECURSIVE Join(_)
Join(l) ==
    IF l = <<>> THEN <<>>
    ELSE IF Len(l) = 1 THEN l[1] ELSE l[1] \o <<SP>> \o Join(Tail(l))

\* what the selector may answer to Pick(eps): any number of tunnels
PickSet(eps) == {[i \in 1..k |-> i] : k \in 0..(Len(eps) + 1)}

\* recvSyn: the result (n, err) and the arrays it leaves, for the selector's
\* answer pick and the outcome ok of the address resolution
\* recvSyn without the comparison of the selector's result with the endpoints
recvSyn_NoLenCheck(s, data, pick, ok) ==
    LET eps == Split(data)
        keep == [tun |-> tunnels[s], rem |-> remotes[s]]
    IN  IF recvSynOnce[s]
        THEN keep @@ [n |-> Len(data), err |-> NoErr]
        ELSE IF ~ok
        THEN keep @@ [n |-> Len(data), err |-> errResolve]
        ELSE [tun |-> pick, rem |-> eps, n |-> Len(data), err |-> NoErr]

\* recvSyn that handles every SYN as if it were the first
recvSyn_NoOnce(s, data, pick, ok) ==
    LET eps == Split(data)
        keep == [tun |-> tunnels[s], rem |-> remotes[s]]
    IN  IF Len(pick) = 0 \/ Len(pick) # Len(eps)
        THEN keep @@ [n |-> Len(data), err |-> errSynInfo]
        ELSE IF ~ok
        THEN keep @@ [n |-> Len(data), err |-> errResolve]
        ELSE [tun |-> pick, rem |-> eps, n |-> Len(data), err |-> NoErr]

\* recvSyn that stores the arrays before the endpoints are resolved
recvSyn_StoreFirst(s, data, pick, ok) ==
    LET eps == Split(data)
        keep == [tun |-> tunnels[s], rem |-> remotes[s]]
    IN  IF recvSynOnce[s]
        THEN keep @@ [n |-> Len(data), err |-> NoErr]
        ELSE IF Len(pick) = 0 \/ Len(pick) # Len(eps)
        THEN keep @@ [n |-> Len(data), err |-> errSynInfo]
        ELSE [tun |-> pick, rem |-> eps, n |-> Len(data),
              err |-> IF ok THEN NoErr ELSE errResolve]

recvSyn(s, data, pick, ok) ==
    LET eps == Split(data)
        keep == [tun |-> tunnels[s], rem |-> remotes[s]]
    IN  IF recvSynOnce[s]
        THEN keep @@ [n |-> Len(data), err |-> NoErr]
        ELSE IF Len(eps) = 0
        THEN keep @@ [n |-> Len(data), err |-> errSynInfo]
        ELSE IF Len(pick) = 0 \/ Len(pick) # Len(eps)
        THEN keep @@ [n |-> Len(data), err |-> errSynInfo]
        ELSE IF ~ok
        THEN keep @@ [n |-> Len(data), err |-> errResolve]
        ELSE [tun |-> pick, rem |-> eps, n |-> Len(data), err |-> NoErr]

\* recvPsh reporting the whole payload as copied: the part that did not
\* fit the buffer is not kept in the read cursor
recvPsh_WholePayload(data, blen) == Len(data)

\* recvPsh: copy(b, data) for a buffer b of blen bytes
recvPsh(data, blen) == Min(blen, Len(data))

\* cmdRead: the (n, err) of the dispatch on the command tag; syn is the
\* result of recvSyn
cmdRead(flag, data, blen, syn) ==
    CASE flag = PSH -> [n |-> recvPsh(data, blen), err |-> NoErr]
      [] flag = SYN -> [n |-> syn.n, err |-> syn.err]
      [] flag = FIN -> [n |-> Len(data), err |-> EOF]
      [] flag = HRT -> [n |-> Len(data), err |-> NoErr]
      [] flag = RST -> [n |-> Len(data), err |-> ErrUnexpectedEOF]
      [] OTHER -> [n |-> 0, err |-> errStreamFlag]

\* recvFin without recvFinOnce
recvFin_NoOnce(s) ==
    /\ recvFinOnce' = [recvFinOnce EXCEPT ![s] = TRUE]
    /\ chRecvFinEvent' = [chRecvFinEvent EXCEPT ![s] = Bump(@)]

\* recvFin: the recv-FIN signal is closed under recvFinOnce
recvFin(s) ==
    IF recvFinOnce[s]
    THEN UNCHANGED <<recvFinOnce, chRecvFinEvent>>
    ELSE /\ recvFinOnce' = [recvFinOnce EXCEPT ![s] = TRUE]
         /\ chRecvFinEvent' = [chRecvFinEvent EXCEPT ![s] = Bump(@)]

\* reset: the reset signal is closed under rstOnce, then kcp.ReleaseTX()
reset(s) ==
    IF rstOnce[s]
    THEN UNCHANGED <<rstOnce, chRst, snd, dlv>>
    ELSE /\ rstOnce' = [rstOnce EXCEPT ![s] = TRUE]
         /\ chRst' = [chRst EXCEPT ![s] = Bump(@)]
         /\ snd' = [snd EXCEPT ![s] = <<>>]
         /\ dlv' = [dlv EXCEPT ![s] = 0]

\* --------------------------------------------------------------------- Read
\* the first select of Read without the recv-FIN case
TopErrs_NoFin(s) ==
    (IF Closed(chClose, s) THEN {ErrClosedPipe} ELSE {})
    \cup (IF Closed(chRst, s) THEN {ErrUnexpectedEOF} ELSE {})

\* the errors the first select of Read (and of Accept) can return
TopErrs(s) ==
    (IF Closed(chClose, s) THEN {ErrClosedPipe} ELSE {})
    \cup (IF Closed(chRst, s) THEN {ErrUnexpectedEOF} ELSE {})
    \cup (IF Closed(chRecvFinEvent, s) THEN {EOF} ELSE {})

\* the cases of the second select of Read that can proceed
ReadWaitCases(s, r) ==
    TopErrs(s)
    \cup (IF chReadEvent[s] THEN {"event"} ELSE {})
    \cup (IF r.tmo # 0 /\ now >= r.tmo THEN {errTimeout} ELSE {})

\* Read, lines 250-259: the call with a buffer of blen bytes and its first
\* select
Read(t, blen) ==
    LET s == StreamOf(t)
        r == Begin(th[t], "Read", "rd_lock", 0, <<>>, blen)
    IN  /\ th[t].pc = "idle"
        /\ IF TopErrs(s) = {}
           THEN th' = [th EXCEPT ![t] = r]
           ELSE \E e \in TopErrs(s) : th' = [th EXCEPT ![t] = Return(r, 0, e)]
        /\ UNCHANGED <<cfgVars, outVars, tunVars, bufptr, timeVars, sigVars, evVars,
                       chClean, kcpVars, CurrEstab, hist>>

\* Read, lines 262-304: the critical section
ReadLock(t) ==
    LET s == StreamOf(t)
        r == th[t]
    IN  /\ r.pc = "rd_lock"
        /\ IF Len(bufptr[s]) > 0
           THEN LET n == Min(r.alen, Len(bufptr[s]))
                IN  /\ bufptr' = [bufptr EXCEPT ![s] = Drop(@, n)]
                    /\ th' = [th EXCEPT ![t] = Return(r, n, NoErr)]
                    /\ hist' = [hist EXCEPT ![s].got =
                                  IF hist[s].track THEN @ \o Take(bufptr[s], n) ELSE @]
                    /\ UNCHANGED <<tunVars, sigVars, kcpVars>>
           ELSE IF PeekSize(s) > 0
           THEN \E pick \in PickSet(Split(Tail(Head(rcv_queue[s])))), ok \in BOOLEAN :
                LET recvbuf == Head(rcv_queue[s])
                    flag == recvbuf[1]
                    syn == recvSyn(s, Tail(recvbuf), pick, ok)
                    res == cmdRead(flag, Tail(recvbuf), r.alen, syn)
                IN  /\ rcv_queue' = [rcv_queue EXCEPT ![s] = Tail(@)]
                    /\ bufptr' = [bufptr EXCEPT ![s] = Drop(recvbuf, res.n + 1)]
                    /\ IF flag = SYN
                       THEN /\ recvSynOnce' = [recvSynOnce EXCEPT ![s] = TRUE]
                            /\ tunnels' = [tunnels EXCEPT ![s] = syn.tun]
                            /\ remotes' = [remotes EXCEPT ![s] = syn.rem]
                       ELSE UNCHANGED <<recvSynOnce, tunnels, remotes>>
                    /\ IF flag = FIN
                       THEN recvFin(s)
                       ELSE UNCHANGED <<recvFinOnce, chRecvFinEvent>>
                    /\ IF flag = RST
                       THEN reset(s)
                       ELSE UNCHANGED <<rstOnce, chRst, snd, dlv>>
                    /\ th' = [th EXCEPT ![t] =
                                Return(r, IF flag = PSH THEN res.n ELSE 0, res.err)]
                    /\ hist' = [hist EXCEPT ![s].got =
                                  IF hist[s].track /\ flag = PSH
                                  THEN @ \o Take(Tail(recvbuf), Min(res.n, r.alen))
                                  ELSE @]
                    /\ UNCHANGED <<sendFinOnce, closeOnce, chSendFinEvent,
                                   chClose, snd_una, kcpDead>>
           ELSE /\ th' = [th EXCEPT ![t] =
                            IF rd[s] # 0 /\ now > rd[s]
                            THEN Return(r, 0, errTimeout)
                            ELSE [r EXCEPT !.pc = "rd_wait", !.tmo = rd[s]]]
                /\ UNCHANGED <<tunVars, bufptr, sigVars, kcpVars, hist>>
        /\ UNCHANGED <<cfgVars, outVars, timeVars, evVars, chClean, CurrEstab>>

\* a blocked reader whose timer takes a pending read event with it
ReadWait_TimeoutTakesEvent(t) ==
    LET s == StreamOf(t)
        r == th[t]
    IN  /\ r.pc = "rd_wait"
        /\ \E c \in ReadWaitCases(s, r) :
              IF c = "event"
              THEN /\ chReadEvent' = [chReadEvent EXCEPT ![s] = FALSE]
                   /\ th' = [th EXCEPT ![t] = [r EXCEPT !.pc = "rd_lock", !.tmo = 0]]
              ELSE /\ chReadEvent' = [chReadEvent EXCEPT ![s] = @ /\ c # errTimeout]
                   /\ th' = [th EXCEPT ![t] = Return(r, 0, c)]
        /\ UNCHANGED <<cfgVars, outVars, tunVars, bufptr, timeVars, sigVars, chDialEvent,
                       chWriteEvent, chClean, kcpVars, CurrEstab, hist>>

\* Read, lines 307-320: the select of a blocked reader
ReadWait(t) ==
    LET s == StreamOf(t)
        r == th[t]
    IN  /\ r.pc = "rd_wait"
        /\ \E c \in ReadWaitCases(s, r) :
              IF c = "event"
              THEN /\ chReadEvent' = [chReadEvent EXCEPT ![s] = FALSE]
                   /\ th' = [th EXCEPT ![t] = [r EXCEPT !.pc = "rd_lock", !.tmo = 0]]
              ELSE /\ UNCHANGED chReadEvent
                   /\ th' = [th EXCEPT ![t] = Return(r, 0, c)]
        /\ UNCHANGED <<cfgVars, outVars, tunVars, bufptr, timeVars, sigVars, chDialEvent,
                       chWriteEvent, chClean, kcpVars, CurrEstab, hist>>


\* ---------------------------------------------------------------- deadlines
\* SetDeadline, lines 170-178; d = 0 is the zero time
SetDeadline(s, d) ==
    /\ rd' = [rd EXCEPT ![s] = d]
    /\ wd' = [wd EXCEPT ![s] = d]
    /\ chReadEvent' = [chReadEvent EXCEPT ![s] = TRUE]
    /\ chWriteEvent' = [chWriteEvent EXCEPT ![s] = TRUE]
    /\ UNCHANGED <<cfgVars, outVars, tunVars, bufptr, now, sigVars, chDialEvent,
                   chClean, kcpVars, CurrEstab, th, hist>>

\* SetReadDeadline, lines 181-187
SetReadDeadline(s, d) ==
    /\ rd' = [rd EXCEPT ![s] = d]
    /\ chReadEvent' = [chReadEvent EXCEPT ![s] = TRUE]
    /\ UNCHANGED <<cfgVars, outVars, tunVars, bufptr, wd, now, sigVars, chDialEvent,
                   chWriteEvent, chClean, kcpVars, CurrEstab, th, hist>>

\* SetWriteDeadline, lines 190-196
SetWriteDeadline(s, d) ==
    /\ wd' = [wd EXCEPT ![s] = d]
    /\ chWriteEvent' = [chWriteEvent EXCEPT ![s] = TRUE]
    /\ UNCHANGED <<cfgVars, outVars, tunVars, bufptr, rd, now, sigVars, chDialEvent,
                   chReadEvent, chClean, kcpVars, CurrEstab, th, hist>>

\* time.Now() moves on
Tick ==
    /\ now < MaxNow
    /\ now' = now + 1
    /\ UNCHANGED <<cfgVars, outVars, tunVars, bufptr, rd, wd, sigVars, evVars,
                   chClean, kcpVars, CurrEstab, th, hist>>

\* ------------------------------------------------------------------- Accept
\* Accept, lines 452-463: the call and its select
Accept(t) ==
    LET s == StreamOf(t)
        r == Begin(th[t], "Accept", "acc_lock", 0, <<>>, 0)
    IN  /\ th[t].pc = "idle"
        /\ IF TopErrs(s) = {}
           THEN th' = [th EXCEPT ![t] = r]
           ELSE \E e \in TopErrs(s) : th' = [th EXCEPT ![t] = Return(r, 0, e)]
        /\ UNCHANGED <<cfgVars, outVars, tunVars, bufptr, timeVars, sigVars, evVars,
                       chClean, kcpVars, CurrEstab, hist>>

\* Accept, lines 465-481: the critical section
AcceptLock(t) ==
    LET s == StreamOf(t)
        r == th[t]
    IN  /\ r.pc = "acc_lock"
        /\ IF PeekSize(s) <= 0
           THEN /\ th' = [th EXCEPT ![t] = Return(r, 0, errRemoteStream)]
                /\ UNCHANGED <<tunVars, recvSynOnce, rcv_queue, hist>>
           ELSE \E pick \in PickSet(Split(Tail(Head(rcv_queue[s])))), ok \in BOOLEAN :
                LET recvbuf == Head(rcv_queue[s])
                    flag == recvbuf[1]
                    syn == recvSyn(s, Tail(recvbuf), pick, ok)
                IN  /\ rcv_queue' = [rcv_queue EXCEPT ![s] = Tail(@)]
                    /\ IF flag # SYN
                       THEN /\ th' = [th EXCEPT ![t] = Return(r, 0, errRemoteStream)]
                            /\ UNCHANGED <<tunVars, recvSynOnce, hist>>
                       ELSE /\ th' = [th EXCEPT ![t] = Return(r, 0, syn.err)]
                            /\ hist' = [hist EXCEPT ![s].dialed = @ \/ syn.err = NoErr]
                            /\ recvSynOnce' = [recvSynOnce EXCEPT ![s] = TRUE]
                            /\ tunnels' = [tunnels EXCEPT ![s] = syn.tun]
                            /\ remotes' = [remotes EXCEPT ![s] = syn.rem]
        /\ UNCHANGED <<cfgVars, outVars, bufptr, timeVars, sendFinOnce, recvFinOnce,
                       rstOnce, closeOnce, chSendFinEvent, chRecvFinEvent, chRst,
                       chClose, evVars, chClean, snd, dlv, snd_una, kcpDead,
                       CurrEstab>>

\* --------------------------------------------------------------------- Dial
\* the endpoint lists Dial is called with
LocalsSet == {<<>>, << <<1>> >>}

\* the cases of the select of Dial that can proceed; the dial timer decides
\* only when nothing else is ready
DialCases(s) ==
    LET c == TopErrs(s) \cup (IF chDialEvent[s] THEN {NoErr} ELSE {})
    IN  IF c = {} THEN {errTimeout} ELSE c

\* Dial, lines 419-432
Dial(t, locals) ==
    LET s == StreamOf(t)
        r == Begin(th[t], "Dial", "wb_top", SYN, Join(locals), 0)
    IN  /\ th[t].pc = "idle"
        /\ th' = [th EXCEPT ![t] =
                    IF accepted[s] THEN Return(r, 0, NoErr)
                    ELSE IF Len(locals) = 0 THEN Return(r, 0, errDialParam)
                    ELSE r]
        /\ hist' = [hist EXCEPT ![s].dials =
                      IF accepted[s] \/ Len(locals) = 0 \/ ~hist[s].track
                      THEN @ ELSE Bump(@)]
        /\ UNCHANGED <<cfgVars, outVars, tunVars, bufptr, timeVars, sigVars, evVars,
                       chClean, kcpVars, CurrEstab>>

\* Dial, line 433: flush(true)
DialFlush(t) ==
    LET s == StreamOf(t)
    IN  /\ th[t].pc = "dial_flush"
        /\ FlushMsgss(s)
        /\ chWriteEvent' = [chWriteEvent EXCEPT ![s] = @ \/ FlushNotify(s)]
        /\ th' = [th EXCEPT ![t].pc = "dial_wait"]
        /\ UNCHANGED <<cfgVars, parallelExpire, lastXmit, fl, tunVars, bufptr, timeVars,
                       sigVars, chDialEvent,
                       chReadEvent, chClean, kcpVars, CurrEstab, hist>>

\* Dial, lines 435-449: the select
DialWait(t) ==
    LET s == StreamOf(t)
        r == th[t]
    IN  /\ r.pc = "dial_wait"
        /\ \E c \in DialCases(s) :
              /\ chDialEvent' = [chDialEvent EXCEPT ![s] = IF c = NoErr THEN FALSE ELSE @]
              /\ th' = [th EXCEPT ![t] = Return(r, 0, c)]
              /\ hist' = [hist EXCEPT ![s].dialed = @ \/ c = NoErr]
        /\ UNCHANGED <<cfgVars, outVars, tunVars, bufptr, timeVars, sigVars, chReadEvent,
                       chWriteEvent, chClean, kcpVars, CurrEstab>>

\* ------------------------------------------------------- Close, CloseWrite
\* Close without closeOnce: every call goes on to WriteFlag(RST, nil)
Close_NoOnce(t) ==
    LET s == StreamOf(t)
        r == Begin(th[t], "Close", "wb_top", RST, <<>>, 0)
    IN  /\ th[t].pc = "idle"
        /\ closeOnce' = [closeOnce EXCEPT ![s] = TRUE]
        /\ th' = [th EXCEPT ![t] = r]
        /\ UNCHANGED <<cfgVars, outVars, tunVars, bufptr, timeVars, recvSynOnce,
                       sendFinOnce, recvFinOnce, rstOnce, chSendFinEvent,
                       chRecvFinEvent, chRst, chClose, evVars, chClean, kcpVars,
                       CurrEstab, hist>>

\* Close, lines 485-496: closeOnce, then WriteFlag(RST, nil)
Close(t) ==
    LET s == StreamOf(t)
        r == Begin(th[t], "Close", "wb_top", RST, <<>>, 0)
    IN  /\ th[t].pc = "idle"
        /\ closeOnce' = [closeOnce EXCEPT ![s] = TRUE]
        /\ th' = [th EXCEPT ![t] =
                    IF closeOnce[s] THEN Return(r, 0, ErrClosedPipe) ELSE r]
        /\ UNCHANGED <<cfgVars, outVars, tunVars, bufptr, timeVars, recvSynOnce,
                       sendFinOnce, recvFinOnce, rstOnce, chSendFinEvent,
                       chRecvFinEvent, chRst, chClose, evVars, chClean, kcpVars,
                       CurrEstab, hist>>

\* Close, lines 497-501
CloseFin(t) ==
    LET s == StreamOf(t)
        r == th[t]
    IN  /\ r.pc = "close_fin"
        /\ chClose' = [chClose EXCEPT ![s] = Bump(@)]
        /\ chClean' = [chClean EXCEPT ![s] = "armed"]
        /\ CurrEstab' = CurrEstab - 1
        /\ th' = [th EXCEPT ![t] = Return(r, 0, NoErr)]
        /\ hist' = [hist EXCEPT ![s].closeRet = TRUE]
        /\ UNCHANGED <<cfgVars, outVars, tunVars, bufptr, timeVars, recvSynOnce,
                       sendFinOnce, recvFinOnce, rstOnce, closeOnce,
                       chSendFinEvent, chRecvFinEvent, chRst, evVars, kcpVars>>

\* CloseWrite, lines 504-514: sendFinOnce, then WriteFlag(FIN, nil)
CloseWrite(t) ==
    LET s == StreamOf(t)
        r == Begin(th[t], "CloseWrite", "wb_top", FIN, <<>>, 0)
    IN  /\ th[t].pc = "idle"
        /\ sendFinOnce' = [sendFinOnce EXCEPT ![s] = TRUE]
        /\ th' = [th EXCEPT ![t] =
                    IF sendFinOnce[s] THEN Return(r, 0, NoErr) ELSE r]
        /\ UNCHANGED <<cfgVars, outVars, tunVars, bufptr, timeVars, recvSynOnce,
                       recvFinOnce, rstOnce, closeOnce, chSendFinEvent,
                       chRecvFinEvent, chRst, chClose, evVars, chClean, kcpVars,
                       CurrEstab, hist>>

\* CloseWrite, lines 515-516
CloseWriteFin(t) ==
    LET s == StreamOf(t)
        r == th[t]
    IN  /\ r.pc = "cw_fin"
        /\ chSendFinEvent' = [chSendFinEvent EXCEPT ![s] = Bump(@)]
        /\ th' = [th EXCEPT ![t] = Return(r, 0, NoErr)]
        /\ UNCHANGED <<cfgVars, outVars, tunVars, bufptr, timeVars, recvSynOnce,
                       sendFinOnce, recvFinOnce, rstOnce, closeOnce,
                       chRecvFinEvent, chRst, chClose, evVars, chClean, kcpVars,
                       CurrEstab, hist>>

\* ------------------------------------------------------------------- update
\* update, lines 538-549: the clean timer has fired
UpdateClean(t) ==
    LET s == StreamOf(t)
    IN  /\ th[t].pc = "upd"
        /\ chClean[s] = "armed"
        /\ chClean' = [chClean EXCEPT ![s] = "done"]
        /\ snd' = [snd EXCEPT ![s] = <<>>]
        /\ dlv' = [dlv EXCEPT ![s] = 0]
        /\ th' = [th EXCEPT ![t].pc = "done"]
        /\ hist' = [hist EXCEPT ![s].cleaned = Bump(@)]
        /\ UNCHANGED <<cfgVars, outVars, tunVars, bufptr, timeVars, sigVars, evVars,
                       rcv_queue, snd_una, kcpDead, CurrEstab>>

\* update, lines 550-552: the heartbeat ticker has fired: WriteFlag(HRT, nil)
UpdateHeartbeat(t) ==
    LET s == StreamOf(t)
    IN  /\ th[t].pc = "upd"
        /\ hist[s].hrt < MaxHrt
        /\ th' = [th EXCEPT ![t] = Begin(@, "Hrt", "wb_top", HRT, <<>>, 0)]
        /\ hist' = [hist EXCEPT ![s].hrt = @ + 1]
        /\ UNCHANGED <<cfgVars, outVars, tunVars, bufptr, timeVars, sigVars, evVars,
                       chClean, kcpVars, CurrEstab>>

\* update, lines 553-562: the flush timer has fired
UpdateFlush(t) ==
    LET s == StreamOf(t)
    IN  /\ th[t].pc = "upd"
        /\ IF kcpDead[s]
           THEN /\ reset(s)
                /\ th' = [th EXCEPT ![t].pc = "done"]
                /\ UNCHANGED <<chWriteEvent, msgss, handed>>
           ELSE /\ FlushMsgss(s)
                /\ chWriteEvent' = [chWriteEvent EXCEPT ![s] = @ \/ FlushNotify(s)]
                /\ UNCHANGED <<rstOnce, chRst, snd, dlv, th>>
        /\ UNCHANGED <<cfgVars, parallelExpire, lastXmit, fl, tunVars, bufptr, timeVars,
                       recvSynOnce,
                       sendFinOnce, recvFinOnce, closeOnce, chSendFinEvent,
                       chRecvFinEvent, chClose, chDialEvent, chReadEvent, chClean,
                       rcv_queue, snd_una, kcpDead, CurrEstab, hist>>

\* ------------------------------------------------------------------- output
DefaultParallelXmit == 5

\* parallelTun that never looks at the parallel window
parallelTun_NoWindow(s, xmitMax) ==
    IF xmitMax >= DefaultParallelXmit
    THEN [parallel |-> Len(tunnels[s]), expire |-> now + ParallelTime]
    ELSE [parallel |-> 1, expire |-> parallelExpire[s]]

\* parallelTun, lines 604-619: the number of tunnels a segment goes to and
\* the value parallelExpire has afterwards (0 is the zero time)
parallelTun(s, xmitMax) ==
    IF xmitMax >= DefaultParallelXmit
    THEN [parallel |-> Len(tunnels[s]), expire |-> now + ParallelTime]
    ELSE IF parallelExpire[s] = 0
    THEN [parallel |-> 1, expire |-> 0]
    ELSE IF parallelExpire[s] > now
    THEN [parallel |-> Len(tunnels[s]), expire |-> parallelExpire[s]]
    ELSE [parallel |-> 1, expire |-> 0]

\* output, lines 621-635: the engine hands the stream the segment buf
output(s, buf, xmitMax) ==
    LET pt == parallelTun(s, xmitMax)
        appendCount == pt.parallel
        grown == [i \in 1..(IF Len(msgss[s]) < appendCount THEN appendCount
                            ELSE Len(msgss[s])) |->
                    IF i <= Len(msgss[s]) THEN msgss[s][i] ELSE <<>>]
    IN  /\ chClean[s] # "done"
        /\ \A i \in 1..Len(msgss[s]) : Len(msgss[s][i]) < MaxOut
        /\ parallelExpire' = [parallelExpire EXCEPT ![s] = pt.expire]
        /\ msgss' = [msgss EXCEPT ![s] =
                       [i \in 1..Len(grown) |->
                          IF i <= appendCount
                          THEN Append(grown[i], [Addr |-> remotes[s][i], Buffers |-> buf])
                          ELSE grown[i]]]
        /\ lastXmit' = [lastXmit EXCEPT ![s] = xmitMax]
        /\ UNCHANGED <<cfgVars, fl, handed, tunVars, bufptr, timeVars, sigVars, evVars, chClean,
                       kcpVars, CurrEstab, th, hist>>

\* -------------------------------------------------------------------- flush
\* a goroutine has died of a run-time panic, and the process with it
Crashed == \E t \in Threads : th[t].pc = "panic"

\* the locals of a goroutine that is not inside flush
NoFlush == [msgss |-> <<>>, i |-> 0, tunnels |-> <<>>]

\* flush, lines 569-592, called by the updater (line 561) or by WriteBuffer
\* (line 379): under the mutex the batches are taken from s.msgss; the write
\* event is sent after the unlock
FlushTake(t) ==
    LET s == StreamOf(t)
        r == th[t]
    IN  /\ ~Crashed
        /\ r.pc \in {"upd", "wb_flush"}
        /\ r.pc = "upd" => ~kcpDead[s]
        /\ chWriteEvent' = [chWriteEvent EXCEPT ![s] = @ \/ FlushNotify(s)]
        /\ msgss' = [msgss EXCEPT ![s] = <<>>]
        /\ IF Len(msgss[s]) = 0
           THEN /\ th' = [th EXCEPT ![t] = WBDone(r, Len(r.b), NoErr)]
                /\ UNCHANGED fl
           ELSE /\ th' = [th EXCEPT ![t].pc = "fl_hand"]
                /\ fl' = [fl EXCEPT ![t] =
                            [msgss |-> msgss[s], i |-> 1, tunnels |-> tunnels[s]]]
        /\ UNCHANGED <<cfgVars, parallelExpire, lastXmit, handed, tunVars, bufptr,
                       timeVars, sigVars, chDialEvent, chReadEvent, chClean,
                       kcpVars, CurrEstab, hist>>

\* flush, lines 596-600: one round of the handoff loop, outside the mutex;
\* s.tunnels[i] with i outside the array is a run-time panic, which ends the
\* process and loses what the goroutine held
FlushHand(t) ==
    LET s == StreamOf(t)
        r == th[t]
        i == fl[t].i
        q == fl[t].msgss
    IN  /\ ~Crashed
        /\ r.pc = "fl_hand"
        /\ IF Len(q[i]) > 0 /\ i > Len(tunnels[s])
           THEN /\ th' = [th EXCEPT ![t].pc = "panic"]
                /\ fl' = [fl EXCEPT ![t] = NoFlush]
                /\ UNCHANGED handed
           ELSE /\ handed' = [handed EXCEPT ![s] =
                                IF Len(q[i]) > 0
                                THEN Append(@, [tunnel |-> tunnels[s][i],
                                                msgs |-> q[i]])
                                ELSE @]
                /\ IF i < Len(q)
                   THEN /\ fl' = [fl EXCEPT ![t].i = i + 1]
                        /\ UNCHANGED th
                   ELSE /\ fl' = [fl EXCEPT ![t] = NoFlush]
                        /\ th' = [th EXCEPT ![t] = WBDone(r, Len(r.b), NoErr)]
        /\ UNCHANGED <<cfgVars, msgss, parallelExpire, lastXmit, tunVars, bufptr,
                       timeVars, sigVars, evVars, chClean, kcpVars, CurrEstab,
                       hist>>

\* -------------------------------------------------------------- environment
\* input, lines 637-665: the engine has taken a datagram and now holds the
\* assembled payloads q, the unacknowledged payloads sn and snd_una una
input(s, q, sn, una) ==
    /\ rcv_queue' = [rcv_queue EXCEPT ![s] = q]
    /\ snd' = [snd EXCEPT ![s] = sn]
    /\ snd_una' = [snd_una EXCEPT ![s] = IF accepted[s] THEN 0 ELSE una]
    /\ chReadEvent' = [chReadEvent EXCEPT ![s] = @ \/ q # <<>>]
    /\ chDialEvent' = [chDialEvent EXCEPT ![s] = @ \/ (~accepted[s] /\ una = 1)]
    /\ chWriteEvent' = [chWriteEvent EXCEPT ![s] =
                          @ \/ (Len(sn) < SndWnd /\ Len(sn) < RmtWnd)]
    /\ FlushMsgss(s)

\* the payloads a peer outside the model sends
InjectSet ==
    {<<PSH, 7, 8>>, <<FIN>>, <<RST>>, <<BADTAG, 9>>}

\* a datagram of a peer outside the model completes the payload m; the peer
\* sends at most max of them
Inject(s, m, max) ==
    /\ chClean[s] # "done"
    /\ hist[s].injected < max
    /\ input(s, Append(rcv_queue[s], m), snd[s], snd_una[s])
    /\ hist' = [hist EXCEPT ![s].injected = @ + 1]
    /\ UNCHANGED <<cfgVars, parallelExpire, lastXmit, fl, tunVars, bufptr, timeVars,
                   sigVars, chClean, dlv,
                   kcpDead, CurrEstab, th>>

\* a datagram of a peer outside the model acknowledges the oldest payload
PeerAck(s) ==
    /\ chClean[s] # "done"
    /\ snd[s] # <<>>
    /\ input(s, rcv_queue[s], Tail(snd[s]), Bump(snd_una[s]))
    /\ UNCHANGED <<cfgVars, parallelExpire, lastXmit, fl, tunVars, bufptr, timeVars,
                   sigVars, chClean, dlv,
                   kcpDead, CurrEstab, th, hist>>

\* the engine of s has retransmitted a segment dead_link times
KcpDeadLink(s) ==
    /\ ~kcpDead[s]
    /\ snd[s] # <<>>
    /\ kcpDead' = [kcpDead EXCEPT ![s] = TRUE]
    /\ UNCHANGED <<cfgVars, outVars, tunVars, bufptr, timeVars, sigVars, evVars, chClean,
                   snd, dlv, rcv_queue, snd_una, CurrEstab, th, hist>>

\* the next payload of s reaches the engine of the peer
Deliver(s) ==
    LET p == Peer(s)
    IN  /\ chClean[p] # "done"
        /\ dlv[s] < Len(snd[s])
        /\ dlv' = [dlv EXCEPT ![s] = @ + 1]
        /\ input(p, Append(rcv_queue[p], snd[s][dlv[s] + 1]), snd[p], snd_una[p])
        /\ UNCHANGED <<cfgVars, parallelExpire, lastXmit, fl, tunVars, bufptr, timeVars,
                   sigVars, chClean,
                       kcpDead, CurrEstab, th, hist>>

\* the acknowledgement of the oldest payload of s reaches s
Ack(s) ==
    /\ chClean[s] # "done"
    /\ dlv[s] > 0
    /\ dlv' = [dlv EXCEPT ![s] = @ - 1]
    /\ input(s, rcv_queue[s], Tail(snd[s]), Bump(snd_una[s]))
    /\ UNCHANGED <<cfgVars, parallelExpire, lastXmit, fl, tunVars, bufptr, timeVars,
                   sigVars, chClean,
                   kcpDead, CurrEstab, th, hist>>

\* ----------------------------------------------------------- specifications
\* the slice lengths of the writer of a connected pair: below, equal to and
\* above MSS
WriteLens == {MSS - 1, MSS, MSS + 1}
ReadLens == {1, MaxRead}

Step(t) ==
    \/ WBTop(t) \/ WBLock(t) \/ WBFlush(t) \/ WBWait(t)
    \/ ReadLock(t) \/ ReadWait(t)
    \/ DialFlush(t) \/ DialWait(t)
    \/ CloseFin(t) \/ CloseWriteFin(t)

\* Spec: one stream with one caller that may call anything in any order, the
\* updater, and a peer outside the model that may send any command
Init ==
    /\ InitCommon
    /\ accepted \in {[s \in Streams |-> IF s = "A" THEN a ELSE TRUE] : a \in BOOLEAN}
    /\ writeDelay = [s \in Streams |-> FALSE]
    /\ hist = [s \in Streams |-> InitHist]

Call(t) ==
    \/ \E n \in {0, MSS} : Write(t, n)
    \/ \E n \in ReadLens : Read(t, n)
    \/ \E l \in LocalsSet : Dial(t, l)
    \/ Close(t)
    \/ CloseWrite(t)

Next ==
    \/ Call("u1") \/ Step("u1")
    \/ UpdateClean("kA") \/ UpdateFlush("kA")
    \/ \E m \in InjectSet : Inject("A", m, MaxInject)
    \/ PeerAck("A")
    \/ KcpDeadLink("A")

Spec == Init /\ [][Next]_vars


\* ConcSpec: one stream with two concurrent callers that write, read, close
\* and half-close, the updater, and a peer outside the model that sends FIN
\* and RST
ConcInit ==
    /\ InitCommon
    /\ accepted = [s \in Streams |-> TRUE]
    /\ writeDelay = [s \in Streams |-> FALSE]
    /\ hist = [s \in Streams |-> InitHist]

ConcStep(t) ==
    \/ WBTop(t) \/ WBLock(t) \/ WBFlush(t) \/ WBWait(t)
    \/ ReadLock(t) \/ ReadWait(t)
    \/ CloseFin(t) \/ CloseWriteFin(t)

ConcNext ==
    \/ \E t \in {"u1", "u2"} : ConcStep(t) \/ Read(t, 1) \/ Close(t) \/ CloseWrite(t)
    \/ Write("u1", 0)
    \/ UpdateFlush("kA")
    \/ \E m \in {<<FIN>>, <<RST>>} : Inject("A", m, MaxInject2)
    \/ PeerAck("A")
    \/ KcpDeadLink("A")

ConcSpec == ConcInit /\ [][ConcNext]_vars


\* PairSpec: the active stream A and the passive stream B, connected by
\* their ARQ engines.  One caller on A dials, then writes, half-closes and
\* closes; the updater of A emits heartbeats; one caller on B calls Accept
\* until an Accept has taken the SYN and, when that Accept returned nil,
\* reads.  What is written and read is recorded.
PairInit ==
    /\ InitCommon
    /\ accepted = [s \in Streams |-> s = "B"]
    /\ writeDelay = [s \in Streams |-> FALSE]
    /\ hist = [s \in Streams |-> [InitHist EXCEPT !.track = TRUE]]

PairStep(t) ==
    \/ WBTop(t) \/ WBLock(t) \/ WBFlush(t) \/ WBWait(t)
    \/ DialFlush(t) \/ DialWait(t)
    \/ CloseFin(t) \/ CloseWriteFin(t)

PairCallA(t) ==
    \/ hist["A"].dials = 0 /\ Dial(t, << <<1>> >>)
    \/ hist["A"].dialed /\ \E n \in WriteLens : Write(t, n)
    \/ hist["A"].dialed /\ CloseWrite(t)
    \/ hist["A"].dialed /\ Close(t)

PairReader(t) ==
    \/ ~recvSynOnce["B"] /\ Accept(t)
    \/ AcceptLock(t)
    \/ hist["B"].dialed /\ \E n \in ReadLens : Read(t, n)
    \/ ReadLock(t) \/ ReadWait(t)

PairNext ==
    \/ PairCallA("u1") \/ PairStep("u1")
    \/ PairReader("u3")
    \/ PairStep("kA") \/ UpdateHeartbeat("kA") \/ UpdateFlush("kA")
    \/ Deliver("A") \/ Ack("A")

PairSpec == PairInit /\ [][PairNext]_vars


\* PairLive: the connected pair without heartbeats and with a reader that
\* may also close, under the fairness the schedulers give: the engines keep
\* delivering and acknowledging, every caller that can take a step takes
\* it, the reader keeps calling Read, the flush timer keeps firing.
PairLiveNext ==
    \/ PairCallA("u1") \/ PairStep("u1")
    \/ PairReader("u3") \/ Close("u3") \/ PairStep("u3")
    \/ UpdateFlush("kA")
    \/ Deliver("A") \/ Ack("A")

PairLive ==
    /\ PairInit
    /\ [][PairLiveNext]_vars
    /\ WF_vars(Deliver("A"))
    /\ WF_vars(Ack("A"))
    /\ WF_vars(PairStep("u1"))
    /\ WF_vars(PairStep("u3"))
    /\ WF_vars(PairReader("u3"))
    /\ WF_vars(UpdateFlush("kA"))

\* ------------------------------------------------ a passive stream and SYNs
\* the payloads the dialling peer sends: a SYN naming one endpoint, a SYN
\* naming two, a SYN naming none, a data payload and a reset
SynSet ==
    {<<SYN, 1>>, <<SYN, 1, SP, 2>>, <<SYN>>, <<PSH, 7>>, <<RST>>}

SynInit ==
    /\ InitCommon
    /\ accepted = [s \in Streams |-> TRUE]
    /\ writeDelay = [s \in Streams |-> FALSE]
    /\ hist = [s \in Streams |-> InitHist]

SynNext ==
    \/ Accept("u3")
    \/ AcceptLock("u3")
    \/ \E n \in ReadLens : Read("u3", n)
    \/ ReadLock("u3")
    \/ ReadWait("u3")
    \/ \E m \in SynSet : Inject("B", m, MaxSyn)

SynSpec == SynInit /\ [][SynNext]_vars

\* --------------------------------------------------- a stream with deadlines
\* the instants a deadline is set to; 0 clears it
Deadlines == 0..MaxNow

TimeInit ==
    /\ InitCommon
    /\ accepted = [s \in Streams |-> TRUE]
    /\ writeDelay = [s \in Streams |-> FALSE]
    /\ hist = [s \in Streams |-> InitHist]

\* one caller of Read, any caller of the deadline setters, the clock, and a
\* peer that sends data
ReadTimeNext ==
    \/ \E n \in ReadLens : Read("u1", n)
    \/ ReadLock("u1") \/ ReadWait("u1")
    \/ \E d \in Deadlines : SetDeadline("A", d)
    \/ \E d \in Deadlines : SetReadDeadline("A", d)
    \/ Tick
    \/ Inject("A", <<PSH, 7, 8>>, MaxInject)

ReadTimeSpec == TimeInit /\ [][ReadTimeNext]_vars

\* one caller of Write, the updater with its heartbeat, any caller of the
\* deadline setters, the clock, and a peer that acknowledges
WriteTimeNext ==
    \/ Write("u1", 1)
    \/ WBTop("u1") \/ WBLock("u1") \/ WBFlush("u1") \/ WBWait("u1")
    \/ UpdateHeartbeat("kA")
    \/ WBTop("kA") \/ WBLock("kA") \/ WBFlush("kA") \/ WBWait("kA")
    \/ UpdateFlush("kA")
    \/ \E d \in Deadlines : SetDeadline("A", d)
    \/ \E d \in Deadlines : SetWriteDeadline("A", d)
    \/ Tick
    \/ PeerAck("A")

WriteTimeSpec == TimeInit /\ [][WriteTimeNext]_vars

\* ------------------------------------------------- the dispatch of segments
\* the xmitMax values the engine reports: a first transmission, the last
\* value below parallelXmit, parallelXmit itself
XmitSet == {1, DefaultParallelXmit - 1, DefaultParallelXmit}

\* the segments the engine emits
SegSet == {<<PSH, 7>>, <<HRT>>}

\* a passive stream that starts with one tunnel and gets two from its SYN, the
\* engine emitting segments, the updater flushing, and the clock
OutNext ==
    \/ Accept("u3")
    \/ AcceptLock("u3")
    \/ Inject("B", <<SYN, 1, SP, 2>>, MaxInject)
    \/ \E buf \in SegSet, x \in XmitSet : output("B", buf, x)
    \/ UpdateFlush("kB")
    \/ Tick

OutSpec == SynInit /\ [][OutNext]_vars

\* ------------------------------------------- a passive stream and SYN retries
\* the dialling peer repeats one SYN that names two endpoints
RetryNext ==
    \/ Accept("u3")
    \/ AcceptLock("u3")
    \/ \E n \in ReadLens : Read("u3", n)
    \/ ReadLock("u3")
    \/ ReadWait("u3")
    \/ Inject("B", <<SYN, 1, SP, 2>>, MaxSyn)

RetrySpec == SynInit /\ [][RetryNext]_vars

\* ------------------------------------- an active stream and a silent peer
StallInit ==
    /\ InitCommon
    /\ accepted = [s \in Streams |-> s # "A"]
    /\ writeDelay = [s \in Streams |-> FALSE]
    /\ hist = [s \in Streams |-> InitHist]

\* the steps of the caller of A inside Write, Dial and Close
StallStep ==
    \/ WBTop("u1") \/ WBLock("u1") \/ WBFlush("u1") \/ WBWait("u1")
    \/ DialFlush("u1") \/ DialWait("u1")
    \/ CloseFin("u1")

\* the steps of the updater of A once a timer has fired
StallUpdate ==
    \/ WBTop("kA") \/ WBLock("kA") \/ WBFlush("kA") \/ WBWait("kA")
    \/ UpdateFlush("kA")
    \/ UpdateClean("kA")

\* one caller of Write, Dial and Close, the updater with its heartbeat, an
\* engine that gives the link up, and a peer that may acknowledge or not
StallNext ==
    \/ Write("u1", 1)
    \/ Dial("u1", << <<1>> >>)
    \/ Close("u1")
    \/ StallStep
    \/ UpdateHeartbeat("kA")
    \/ StallUpdate
    \/ KcpDeadLink("A")
    \/ PeerAck("A")

StallSpec == StallInit /\ [][StallNext]_vars

\* every goroutine of the stream that can take a step takes it, and the
\* engine gives up a link whose segments stay unacknowledged; nothing is
\* assumed of the peer or of when the heartbeat ticker fires
StallLive ==
    /\ StallInit
    /\ [][StallNext]_vars
    /\ WF_vars(StallStep)
    /\ WF_vars(StallUpdate)
    /\ WF_vars(KcpDeadLink("A"))

\* ------------------------------------------------ flushes and a late SYN
\* a passive stream constructed with two remote endpoints
FlushInit ==
    /\ tunnels = [s \in Streams |-> IF s = "A" THEN <<2, 1>> ELSE <<1>>]
    /\ remotes = [s \in Streams |->
                    IF s = "A" THEN << <<1>>, <<2>> >> ELSE << <<1>> >>]
    /\ InitRest
    /\ accepted = [s \in Streams |-> TRUE]
    /\ writeDelay = [s \in Streams |-> FALSE]
    /\ hist = [s \in Streams |-> [InitHist EXCEPT !.track = TRUE]]

\* the engine hands over a heartbeat segment while the tunnel layer can take
\* more
FlushOutput ==
    /\ ~Crashed
    /\ Len(handed["A"]) + Len(msgss["A"]) < MaxHand
    /\ \E x \in XmitSet : output("A", <<HRT>>, x)

\* a caller of Accept, a writer of one slice and the updater, both with their
\* flush, the engine emitting segments, and a peer whose SYN names one endpoint
FlushNext ==
    \/ ~Crashed /\ Accept("u1")
    \/ ~Crashed /\ AcceptLock("u1")
    \/ ~Crashed /\ Write("u2", MaxBytes)
    \/ ~Crashed /\ WBTop("u2")
    \/ ~Crashed /\ WBLock("u2")
    \/ FlushTake("u2") \/ FlushHand("u2")
    \/ FlushTake("kA") \/ FlushHand("kA")
    \/ FlushOutput
    \/ ~Crashed /\ Inject("A", <<SYN, 1>>, MaxInject)

FlushSpec == FlushInit /\ [][FlushNext]_vars

\* ------------------------------------------------------------------- claims
\* the last call of thread t has returned from operation op
Returned(t, op) == th[t].pc = "idle" /\ th[t].rop = op

\* C1: on a connected pair with one writer on A and one reader on B, the
\* bytes B's Reads have returned are at every moment a prefix of the bytes
\* passed to A's successful Writes, in call order.
C1_ReadIsPrefixOfWritten ==
    /\ Len(hist["B"].got) <= Len(hist["A"].sent)
    /\ hist["B"].got = SubSeq(hist["A"].sent, 1, Len(hist["B"].got))

\* a Write above MSS was split, and a Read with a one-byte buffer returned
\* the last of its bytes
C1_Witness ==
    /\ Returned("u1", "Write") /\ th["u1"].alen = MSS + 1
    /\ Returned("u3", "Read") /\ th["u3"].alen = 1 /\ th["u3"].rn = 1
    /\ hist["B"].got = hist["A"].sent
    /\ Len(hist["A"].sent) = MSS + 1

\* C2 (as claimed): a Write that returns without error returns the length of
\* the slice its caller passed.
C2_WriteReturnsLen ==
    \A t \in UserThreads :
        Returned(t, "Write") /\ th[t].rerr = NoErr => th[t].rn = th[t].alen

\* C3: when a Read of B returns EOF, B's Reads have returned every byte A
\* submitted before its FIN.
C3_EofAfterAllBytes ==
    Returned("u3", "Read") /\ th["u3"].rerr = EOF =>
        /\ hist["A"].finMark # -1
        /\ hist["B"].got = SubSeq(hist["A"].sent, 1, hist["A"].finMark)

\* EOF was returned after a split Write whose last payload was read with a
\* one-byte buffer
C3_Witness ==
    /\ Returned("u3", "Read") /\ th["u3"].rerr = EOF /\ th["u3"].alen = 1
    /\ hist["A"].finMark >= MSS
    /\ bufptr["B"] = <<>>

\* C4: once A's CloseWrite has passed its first select on a connected pair, a
\* Read of B eventually returns EOF unless B is closed or reset; and once
\* the recv-FIN signal of B has fired, every Read called on B while B is
\* neither closed nor reset returns EOF in its first select.
C4_FinPending ==
    /\ hist["B"].dialed
    /\ \/ hist["A"].nFin > 0
       \/ th["u1"].op = "CloseWrite" /\ th["u1"].pc \in {"wb_lock", "wb_wait"}

C4_EofOrTerminated ==
    \/ Returned("u3", "Read") /\ th["u3"].rerr = EOF
    \/ Closed(chClose, "B")
    \/ Closed(chRst, "B")

C4_ReadStaysEof ==
    /\ Closed(chRecvFinEvent, "B")
    /\ ~Closed(chClose, "B") /\ ~Closed(chRst, "B")
    /\ th["u3"].pc = "idle"
    /\ th'["u3"] # th["u3"]
    /\ (th'["u3"].op = "Read" \/ th'["u3"].rop = "Read")
    => (th'["u3"].pc = "idle" /\ th'["u3"].rerr = EOF)

C5_AfterCloseClosedPipe ==
    hist["A"].closeRet =>
        /\ th["u1"].pc \notin {"rd_wait", "wb_wait"}
        /\ Returned("u1", "Read") \/ Returned("u1", "Write") \/ Returned("u1", "Dial")
           => th["u1"].rerr \in {ErrClosedPipe, ErrUnexpectedEOF}

\* C6: however often Close and CloseWrite are called, at most one RST and
\* one FIN are submitted, the closed and send-FIN signals fire once, the
\* established counter is decremented once, a Close called after the first
\* returns closed-pipe and a CloseWrite called after the first returns nil.
C6_CountsOnce ==
    /\ hist["A"].nRst <= 1 /\ hist["A"].nFin <= 1
    /\ chClose["A"] <= 1 /\ chSendFinEvent["A"] <= 1
    /\ CurrEstab = Cardinality(Streams) - chClose["A"]

C6_LaterCalls ==
    \A t \in {"u1", "u2"} :
        /\ th[t].pc = "idle" /\ th'[t] # th[t]
           /\ closeOnce["A"] /\ th'[t].rop = "Close" /\ th'[t].pc = "idle"
           => th'[t].rerr = ErrClosedPipe
        /\ th[t].pc = "idle" /\ th'[t] # th[t]
           /\ sendFinOnce["A"] /\ th'[t].rop = "CloseWrite" /\ th'[t].pc = "idle"
           => th'[t].rerr = NoErr

C6_CloseIdempotent == []C6_CountsOnce /\ [][C6_LaterCalls]_vars

\* both callers have called Close and both have called CloseWrite
C6_Witness ==
    /\ Returned("u1", "Close") /\ th["u1"].rerr = ErrClosedPipe
    /\ Returned("u2", "CloseWrite") /\ th["u2"].rerr = NoErr
    /\ chClose["A"] = 1 /\ chSendFinEvent["A"] = 1
    /\ hist["A"].nFin = 1

\* C7: no one-shot signal is closed twice.
C7_SignalsCloseOnce ==
    \A s \in Streams :
        /\ chClose[s] <= 1 /\ chRst[s] <= 1
        /\ chRecvFinEvent[s] <= 1 /\ chSendFinEvent[s] <= 1

\* all four signals have fired, the updater has detected the dead link and
\* Reads have consumed both commands of the peer
C7_Witness ==
    /\ chClose["A"] = 1 /\ chRst["A"] = 1
    /\ chRecvFinEvent["A"] = 1 /\ chSendFinEvent["A"] = 1
    /\ th["kA"].pc = "done"
    /\ hist["A"].injected = MaxInject2 /\ rcv_queue["A"] = <<>>

\* C8 (as claimed): at most one of closed, reset and recv-FIN has fired.
C8_AtMostOneTerminal ==
    \A s \in Streams :
        Cardinality({c \in {"close", "rst", "fin"} :
            \/ c = "close" /\ Closed(chClose, s)
            \/ c = "rst" /\ Closed(chRst, s)
            \/ c = "fin" /\ Closed(chRecvFinEvent, s)}) <= 1

\* C9 (as claimed): a Write that fails on a stream that is half-closed, not
\* closed and not reset fails with closed-pipe.
C9_HalfClosedWriteClosedPipe ==
    \A t \in {"u1", "u2"} :
        /\ Returned(t, "Write") /\ th[t].rerr # NoErr
        /\ Closed(chSendFinEvent, "A")
        /\ ~closeOnce["A"] /\ ~Closed(chRst, "A")
        => th[t].rerr = ErrClosedPipe

\* C10 (as claimed): a Read that consumes a message with an unknown command
\* tag resets the stream.
C10_BadTagResets ==
    Returned("u1", "Read") /\ th["u1"].rerr = errStreamFlag => Closed(chRst, "A")

\* C11 (as claimed): a Close that has returned on a stream that was not
\* reset has submitted one RST to the engine.
C11_CloseSubmitsRst ==
    hist["A"].closeRet /\ ~rstOnce["A"] => hist["A"].nRst = 1

\* C12 (as claimed): a stream whose Close has returned is cleaned once: as
\* long as the clean callback has not run, the updater that serves the clean
\* timer is still running, and the callback never runs twice.
C12_ClosedStreamIsCleaned ==
    /\ hist["A"].cleaned <= 1
    /\ hist["A"].closeRet /\ hist["A"].cleaned = 0 => th["kA"].pc # "done"

\* C13 (as claimed): a stream that is reset and was never closed locally is
\* on its way to clean: its clean timer runs or the callback has run.
C13_ResetStreamIsCleaned ==
    Closed(chRst, "A") /\ ~closeOnce["A"] =>
        chClean["A"] = "armed" \/ hist["A"].cleaned > 0

\* C20 (as claimed): the occupancy of the send queue never exceeds the
\* smaller of the two windows.
C20_WindowPerSegment ==
    \A s \in Streams : WaitSnd(s) <= Min(SndWnd, RmtWnd)

\* C16: a stream always holds as many tunnels as remote addresses, and at
\* least one of each, whatever the selector returns for a SYN and whether or
\* not its endpoints resolve.
C16_TunnelsMatchRemotes ==
    \A s \in Streams :
        Len(tunnels[s]) = Len(remotes[s]) /\ Len(tunnels[s]) >= 1

\* a SYN naming two endpoints has replaced the arrays of the passive stream
C16_Witness ==
    recvSynOnce["B"] /\ Len(tunnels["B"]) = 2 /\ Len(remotes["B"]) = 2

\* the payload at the head of the receive queue of B is a SYN
HeadIsSyn ==
    rcv_queue["B"] # <<>> /\ Head(rcv_queue["B"])[1] = SYN

\* C17: the arrays change only in the step that handles the first SYN; a SYN
\* handled later, by Accept or by Read, is consumed with the arrays unchanged
\* and without error, and gives a Read caller zero bytes.
C17_SynOnce ==
    [][ /\ recvSynOnce["B"] => UNCHANGED <<tunnels, remotes>>
        /\ (tunnels' # tunnels \/ remotes' # remotes) =>
               HeadIsSyn /\ rcv_queue'["B"] = Tail(rcv_queue["B"])
        /\ recvSynOnce["B"] /\ HeadIsSyn
              /\ rcv_queue'["B"] = Tail(rcv_queue["B"]) =>
               /\ th'["u3"].pc = "idle"
               /\ th'["u3"].rerr = NoErr
               /\ th'["u3"].rn = 0
               /\ bufptr'["B"] = <<>> ]_vars

\* an Accept has handled one SYN without error and the Read that returned
\* last consumed the peer's second payload as a SYN: zero bytes, no error
C17_Witness ==
    /\ hist["B"].dialed
    /\ hist["B"].injected = 2
    /\ rcv_queue["B"] = <<>>
    /\ Returned("u3", "Read")
    /\ th["u3"].rerr = NoErr
    /\ th["u3"].rn = 0
    /\ Len(tunnels["B"]) = 2

\* C19: Accept never waits for an event, and an Accept that returns an error
\* has left the reset signal and the tunnel and remote arrays as they were.
C19_AcceptNeverBlocks ==
    [][ th["u3"].op = "Accept" =>
          /\ th'["u3"].pc \in {"idle", "acc_lock"}
          /\ th'["u3"].pc = "idle" /\ th'["u3"].rerr # NoErr =>
                UNCHANGED <<tunnels, remotes, chRst, rstOnce>> ]_vars

\* an Accept has returned the resolver's or the selector's error for a SYN
C19_Witness ==
    /\ Returned("u3", "Accept")
    /\ th["u3"].rerr \in {errResolve, errSynInfo}
    /\ recvSynOnce["B"]

\* C14: a Read that finds neither buffered bytes nor an assembled message
\* after its read deadline has passed returns the timeout error, and a Read
\* that returns the timeout error has changed nothing of the stream: no
\* message is consumed, the cursor stays, no signal fires, no event is taken.
C14_TimeoutChangesNothing ==
    [][ /\ ( /\ th["u1"].pc = "rd_lock"
             /\ bufptr["A"] = <<>>
             /\ PeekSize("A") <= 0
             /\ rd["A"] # 0 /\ now > rd["A"]
             /\ th'["u1"] # th["u1"] ) =>
               /\ th'["u1"].pc = "idle"
               /\ th'["u1"].rerr = errTimeout
               /\ th'["u1"].rn = 0
        /\ ( /\ th["u1"].op = "Read"
             /\ th'["u1"].pc = "idle"
             /\ th'["u1"].rerr = errTimeout ) =>
               UNCHANGED <<bufptr, kcpVars, sigVars, evVars, tunVars, timeVars,
                           chClean>> ]_vars

\* a Read has timed out, the stream has no terminal signal, and a message
\* that arrived afterwards waits for the next Read
C14_Witness ==
    /\ Returned("u1", "Read")
    /\ th["u1"].rerr = errTimeout
    /\ rcv_queue["A"] # <<>>
    /\ bufptr["A"] = <<>>
    /\ TopErrs("A") = {}

\* C15 (as claimed): a Write that is blocked after its write deadline has
\* passed has something to wake it: a pending write event, a timer that has
\* fired, or a terminal signal.
C15_BlockedWriteWakes ==
    ( /\ th["u1"].pc = "wb_wait"
      /\ wd["A"] # 0 /\ now > wd["A"] ) =>
        WBWaitCases("A", th["u1"]) # {}

\* C18: a segment handed to a stream with N tunnels is appended to the
\* first k queues and to no other, the copy in queue i addressed to the i-th
\* remote, with k = N if its xmitMax reaches parallelXmit or the parallel
\* window expires later than now, and k = 1 otherwise; a segment whose
\* xmitMax reaches parallelXmit sets the expiry to now + parallelTime.
C18_CopiesPerSegment ==
    [][ (msgss'["B"] # msgss["B"] /\ msgss'["B"] # <<>>) =>
          LET N == Len(tunnels["B"])
              x == lastXmit'["B"]
              k == IF x >= DefaultParallelXmit \/ parallelExpire["B"] > now
                   THEN N ELSE 1
              old == msgss["B"]
              new == msgss'["B"]
          IN  /\ Len(new) = IF Len(old) < k THEN k ELSE Len(old)
              /\ \A i \in 1..Len(new) :
                    LET was == IF i <= Len(old) THEN old[i] ELSE <<>>
                    IN  IF i <= k
                        THEN /\ Len(new[i]) = Len(was) + 1
                             /\ SubSeq(new[i], 1, Len(was)) = was
                             /\ new[i][Len(new[i])].Addr = remotes["B"][i]
                             /\ new[i][Len(new[i])].Buffers
                                  = new[1][Len(new[1])].Buffers
                        ELSE new[i] = was
              /\ x >= DefaultParallelXmit =>
                    parallelExpire'["B"] = now + ParallelTime ]_vars

\* inside the parallel window a segment with a low xmitMax has gone to both
\* tunnels of a stream, each copy addressed to the remote of its queue
C18_Witness ==
    /\ Len(tunnels["B"]) = 2
    /\ lastXmit["B"] < DefaultParallelXmit
    /\ parallelExpire["B"] > now
    /\ Len(msgss["B"]) = 2
    /\ Len(msgss["B"][1]) = 1
    /\ Len(msgss["B"][2]) = 1
    /\ msgss["B"][2][1].Addr = remotes["B"][2]

\* C24 (as claimed): once a FIN has been submitted to the engine, no step
\* submits a PSH.
C24_NoPshAfterFin ==
    [][ (hist["A"].nFin > 0 /\ Len(snd'["A"]) > Len(snd["A"])) =>
          \A i \in (Len(snd["A"]) + 1)..Len(snd'["A"]) :
              snd'["A"][i][1] # PSH ]_vars

\* C25 (as claimed): a passive stream on which an Accept has returned nil for
\* the peer's SYN holds the two endpoints that SYN names, also when the first
\* SYN it handled had failed.
C25_AcceptedSynInstalls ==
    hist["B"].dialed =>
        Len(remotes["B"]) = 2 /\ Len(tunnels["B"]) = 2

\* C28 (as claimed): the read cursor holds payload bytes of PSH commands only.
C28_CursorHoldsPshBytes ==
    \A i \in 1..Len(bufptr["A"]) :
        \E m \in InjectSet :
            m[1] = PSH /\ \E j \in 2..Len(m) : m[j] = bufptr["A"][i]

\* C23 (as claimed): a Dial that has been called returns: with success after
\* the acknowledgement, with timeout when its timer fires, or with the error
\* of a terminal signal.
C23_DialReturns ==
    (th["u1"].op = "Dial") ~> (th["u1"].op # "Dial")

\* C26 (as claimed): the updater that has started a heartbeat comes back to
\* its select, where it serves the flush timer.
C26_HeartbeatReturns ==
    (th["kA"].op = "Hrt") ~> (th["kA"].op # "Hrt")

\* C27 (as claimed): the first Close fires the closed signal and returns.
C27_CloseReturns ==
    (th["u1"].op = "Close") ~> (Closed(chClose, "A") /\ hist["A"].closeRet)

\* C21 (as claimed): the tunnel array is read under the mutex only, so the
\* tunnel a flush hands a batch to is the one the array held when the flush
\* held the mutex.
C21_HandoffUsesLockedRead ==
    [][ \A t \in {"u2", "kA"} :
          (th[t].pc = "fl_hand" /\ Len(handed'["A"]) > Len(handed["A"])
             /\ fl'[t] # fl[t]) =>
              handed'["A"][Len(handed'["A"])].tunnel
                  = fl[t].tunnels[fl[t].i] ]_vars

\* C22 (as claimed): a flush that is about to hand over queue i finds i
\* inside the tunnel array.
C22_HandoffIndexValid ==
    \A t \in {"u2", "kA"} :
        (th[t].pc = "fl_hand" /\ Len(fl[t].msgss[fl[t].i]) > 0) =>
            fl[t].i <= Len(tunnels["A"])

\* the number of messages in the queues of q from index i on
RECURSIVE QueuedFrom(_, _)
QueuedFrom(q, i) ==
    IF i > Len(q) \/ i < 1 THEN 0 ELSE Len(q[i]) + QueuedFrom(q, i + 1)

\* the number of messages in the batches of h from index i on
RECURSIVE HandedFrom(_, _)
HandedFrom(h, i) ==
    IF i > Len(h) THEN 0 ELSE Len(h[i].msgs) + HandedFrom(h, i + 1)

\* the datagrams of A that were queued: those still pending, those a flush
\* has taken and not yet handed over, and those handed to the tunnel layer
Queued ==
    QueuedFrom(msgss["A"], 1)
    + QueuedFrom(fl["u2"].msgss, fl["u2"].i)
    + QueuedFrom(fl["kA"].msgss, fl["kA"].i)
    + HandedFrom(handed["A"], 1)

\* C29 (as claimed): no step drops a queued datagram or hands one over a
\* second time: their number changes only when the dispatcher queues new
\* ones; and a flush leaves the pending queues empty.
C29_HandedExactlyOnce ==
    [][ /\ Queued' = Queued
           \/ (Queued' > Queued /\ handed' = handed /\ fl' = fl)
        /\ \A t \in {"u2", "kA"} :
              (th[t].pc # "fl_hand" /\ th'[t].pc = "fl_hand") =>
                  msgss'["A"] = <<>> ]_vars
====
